---- MODULE Spec2Model ----
(***************************************************************************)
(* Client-side scripting layer of the Evalon site: the guided onboarding   *)
(* tour (static/js/onboarding-tour.js), the two tour step modules, the     *)
(* testimonial rotation and the debounced global search of main.js.        *)
(* Each component has its own specification over its own variables; the    *)
(* variables of the other components stutter.                               *)
(***************************************************************************)
EXTENDS Integers, Sequences, FiniteSets, TLC

\* ------------------------------------------------------------------------
\* Bounds of the model
\* ------------------------------------------------------------------------
\* showStep(i) is called with i from -IndexSlack .. steps.length-1+IndexSlack
IndexSlack == 2
\* at most this many completeTour calls / pending timers per tour instance
MaxCompletions == 2
MaxPending == 1

\* ------------------------------------------------------------------------
\* Tour step modules
\* ------------------------------------------------------------------------
Roles == {"viewer", "manager"}

onboardingSteps ==
  << [title |-> "Welcome to Evalon!",
     message |-> "Let's take a quick tour of your hiring dashboard. We'll show you how to create positions, invite candidates, and make data-driven hiring decisions.",
     target |-> ".db-header",
     scrollTo |-> TRUE, onShow |-> FALSE],
     [title |-> "Your Vacancy Page",
     message |-> "This is your public careers page. Share this link with candidates -- anyone who applies will automatically appear in your Candidates list.",
     target |-> ".db-vacancy-bar",
     scrollTo |-> TRUE, onShow |-> FALSE],
     [title |-> "Hiring Metrics",
     message |-> "Track completion rates, average duration, and candidate scores at a glance. These update automatically as candidates complete assessments.",
     target |-> ".db-metrics",
     scrollTo |-> TRUE, onShow |-> FALSE],
     [title |-> "Jobs & Positions",
     message |-> "Create and manage your open positions here. Each position can have its own assessment pipeline and AI screening settings.",
     target |-> ".nav-item[href*='projects']",
     scrollTo |-> FALSE, onShow |-> FALSE],
     [title |-> "Your Candidates",
     message |-> "All applications land here. You can filter by position, status, or AI screening score. Click any candidate to see full details and take action.",
     target |-> ".nav-item[href*='applications']",
     scrollTo |-> FALSE, onShow |-> FALSE],
     [title |-> "You're All Set!",
     message |-> "Start by creating your first position. You can always restart this tour from Settings.",
     target |-> ".db-header-cta",
     scrollTo |-> TRUE, onShow |-> FALSE] >>

aiScreeningStep ==
    [title |-> "AI Screening",
     message |-> "Your plan includes AI-powered candidate screening. When creating a position, toggle 'Enable AI Screening' to automatically score and filter applicants.",
     target |-> ".nav-item[href*='projects']",
     scrollTo |-> FALSE, onShow |-> FALSE]

legacyOnboardingSteps ==
  << [title |-> "Welcome to Evalon!",
     message |-> "Let's take a quick tour to help you get started. We'll show you how to invite candidates, track progress, and make hiring decisions.",
     target |-> ".dashboard-page-header",
     scrollTo |-> TRUE, onShow |-> FALSE],
     [title |-> "Your Performance Dashboard",
     message |-> "Track your hiring metrics at a glance: completion rates, average duration, and candidate scores.",
     target |-> ".key-metrics",
     scrollTo |-> TRUE, onShow |-> FALSE],
     [title |-> "Quick Actions",
     message |-> "Access key features quickly from these shortcuts: Assessments, Projects, Analytics, and Data Export.",
     target |-> ".quick-links-grid",
     scrollTo |-> TRUE, onShow |-> FALSE],
     [title |-> "Browse Assessments",
     message |-> "Click here to see all available assessments. Each assessment is designed for specific roles and skills.",
     target |-> ".nav-item[href*='assessments']",
     scrollTo |-> FALSE, onShow |-> TRUE],
     [title |-> "Organize with Projects",
     message |-> "Group candidates by role or position. Projects help you track hiring pipelines and collaborate with your team.",
     target |-> ".nav-item[href*='projects']",
     scrollTo |-> FALSE, onShow |-> FALSE],
     [title |-> "Review Results",
     message |-> "After candidates complete assessments, view detailed reports here. You'll see scores, insights, and recommendations.",
     target |-> ".recent-activity-section",
     scrollTo |-> TRUE, onShow |-> FALSE],
     [title |-> "Track Analytics",
     message |-> "Monitor trends over time: completion rates, score distributions, and performance benchmarks.",
     target |-> ".nav-item[href*='analytics']",
     scrollTo |-> FALSE, onShow |-> FALSE],
     [title |-> "You're All Set!",
     message |-> "That's it! Start by inviting your first candidate. Need help? Check Settings for tour replay and support links.",
     target |-> ".primary-action-card",
     scrollTo |-> TRUE, onShow |-> FALSE] >>

Chars(str) ==
  CASE str = "Welcome to Evalon!" ->
         << "W", "e", "l", "c", "o", "m", "e", " ", "t", "o", " ", "E", "v", "a", "l", "o", "n", "!" >>
    [] str = "Your Performance Dashboard" ->
         << "Y", "o", "u", "r", " ", "P", "e", "r", "f", "o", "r", "m", "a", "n", "c", "e", " ", "D", "a", "s", "h", "b", "o", "a", "r", "d" >>
    [] str = "Quick Actions" ->
         << "Q", "u", "i", "c", "k", " ", "A", "c", "t", "i", "o", "n", "s" >>
    [] str = "Browse Assessments" ->
         << "B", "r", "o", "w", "s", "e", " ", "A", "s", "s", "e", "s", "s", "m", "e", "n", "t", "s" >>
    [] str = "Organize with Projects" ->
         << "O", "r", "g", "a", "n", "i", "z", "e", " ", "w", "i", "t", "h", " ", "P", "r", "o", "j", "e", "c", "t", "s" >>
    [] str = "Review Results" ->
         << "R", "e", "v", "i", "e", "w", " ", "R", "e", "s", "u", "l", "t", "s" >>
    [] str = "Track Analytics" ->
         << "T", "r", "a", "c", "k", " ", "A", "n", "a", "l", "y", "t", "i", "c", "s" >>
    [] str = "You're All Set!" ->
         << "Y", "o", "u", "'", "r", "e", " ", "A", "l", "l", " ", "S", "e", "t", "!" >>
    [] str = "Invite" ->
         << "I", "n", "v", "i", "t", "e" >>
    [] str = "Organize" ->
         << "O", "r", "g", "a", "n", "i", "z", "e" >>

\* Array.prototype.splice(start, 0, item) for start >= 0: start is clamped
\* to the length, nothing is deleted, item is inserted before 0-based start.
Splice(arr, start, item) ==
  LET s == IF start > Len(arr) THEN Len(arr) ELSE start
  IN  SubSeq(arr, 1, s) \o << item >> \o SubSeq(arr, s + 1, Len(arr))

\* String.prototype.includes(needle): needle occurs as a contiguous,
\* case-sensitive run of characters of str.
seqIncludes(s, n) ==
  \E i \in 0 .. (Len(s) - Len(n)) :
     \A j \in 1 .. Len(n) : s[i + j] = n[j]

includes(str, needle) == seqIncludes(Chars(str), Chars(needle))

\* buildTourSteps(userRole, canUseAI), with the module-level array it reads
\* passed as `shared`.  The result carries the returned array and the
\* contents of the module-level array after the call.
buildTourStepsSpliceBefore(shared, userRole, canUseAI) ==
  LET copy == shared
      spliced == IF canUseAI THEN Splice(copy, 3, aiScreeningStep) ELSE copy
      kept(step) == step.title # "Jobs & Positions" /\ step.title # "AI Screening"
  IN  [steps |-> IF userRole = "viewer" THEN SelectSeq(spliced, kept) ELSE spliced,
       onboardingSteps |-> shared]

buildTourStepsKeepAI(shared, userRole, canUseAI) ==
  LET copy == shared
      spliced == IF canUseAI THEN Splice(copy, 4, aiScreeningStep) ELSE copy
      kept(step) == step.title # "Jobs & Positions"
  IN  [steps |-> IF userRole = "viewer" THEN SelectSeq(spliced, kept) ELSE spliced,
       onboardingSteps |-> shared]

buildTourSteps(shared, userRole, canUseAI) ==
  LET copy == shared
      spliced == IF canUseAI THEN Splice(copy, 4, aiScreeningStep) ELSE copy
      kept(step) == step.title # "Jobs & Positions" /\ step.title # "AI Screening"
  IN  [steps |-> IF userRole = "viewer" THEN SelectSeq(spliced, kept) ELSE spliced,
       onboardingSteps |-> shared]

\* getRoleSteps(userRole) of the earlier step module: the viewer filter
\* tests the step titles with includes(); every other role gets the
\* module-level array itself.
getRoleStepsAnyRole(shared, userRole) ==
  LET kept(step) == ~includes(step.title, "Invite") /\ ~includes(step.title, "Organize")
  IN  [steps |-> SelectSeq(shared, kept), onboardingSteps |-> shared]

getRoleSteps(shared, userRole) ==
  LET kept(step) == ~includes(step.title, "Invite") /\ ~includes(step.title, "Organize")
  IN  [steps |-> IF userRole = "viewer" THEN SelectSeq(shared, kept) ELSE shared,
       onboardingSteps |-> shared]

\* Number -> decimal string, as the assignment of a number to textContent
\* produces it (the model only meets 0 .. 99).
Digit == << "0", "1", "2", "3", "4", "5", "6", "7", "8", "9" >>
textOf(n) ==
  IF n < 10 THEN << Digit[n + 1] >>
  ELSE << Digit[(n \div 10) + 1], Digit[(n % 10) + 1] >>

\* the mock search data, in the order Object.entries visits it; a title is
\* the sequence of its characters
searchableItems ==
  << [title |-> << "D", "i", "g", "i", "t", "a", "l", " ", "M", "a", "r", "k", "e", "t", "i", "n", "g", " ", "A", "s", "s", "e", "s", "s", "m", "e", "n", "t" >>,
      type |-> "assessment", category |-> "assessments"],
     [title |-> << "P", "r", "o", "d", "u", "c", "t", " ", "M", "a", "n", "a", "g", "e", "m", "e", "n", "t", " ", "A", "s", "s", "e", "s", "s", "m", "e", "n", "t" >>,
      type |-> "assessment", category |-> "assessments"],
     [title |-> << "B", "e", "h", "a", "v", "i", "o", "r", "a", "l", " ", "A", "s", "s", "e", "s", "s", "m", "e", "n", "t" >>,
      type |-> "assessment", category |-> "assessments"],
     [title |-> << "D", "a", "s", "h", "b", "o", "a", "r", "d" >>,
      type |-> "page", category |-> "pages"],
     [title |-> << "A", "s", "s", "e", "s", "s", "m", "e", "n", "t", "s" >>,
      type |-> "page", category |-> "pages"],
     [title |-> << "P", "r", "o", "j", "e", "c", "t", "s" >>,
      type |-> "page", category |-> "pages"],
     [title |-> << "A", "n", "a", "l", "y", "t", "i", "c", "s" >>,
      type |-> "page", category |-> "pages"],
     [title |-> << "S", "e", "t", "t", "i", "n", "g", "s" >>,
      type |-> "page", category |-> "pages"] >>

UpperCase == << "A", "B", "C", "D", "E", "F", "G", "H", "I", "J", "K", "L", "M", "N", "O", "P", "Q", "R", "S", "T", "U", "V", "W", "X", "Y", "Z" >>
LowerCase == << "a", "b", "c", "d", "e", "f", "g", "h", "i", "j", "k", "l", "m", "n", "o", "p", "q", "r", "s", "t", "u", "v", "w", "x", "y", "z" >>
\* ------------------------------------------------------------------------
\* State
\* ------------------------------------------------------------------------
VARIABLES
  \* page context the tour is started from
  userRole,      \* role handed to the step module
  canUseAI,      \* plan flag handed to buildTourSteps
  stepModule,    \* which step module the page loaded
  tourOptions,   \* the options argument of new OnboardingTour(steps, options)
  sharedSteps,   \* the module-level onboardingSteps array of the loaded module
  \* the OnboardingTour instance, its elements and its effects
  phase,         \* "page" before the constructor ran, "tour" after
  tour,
  last,          \* the event handled last and the tour method it invoked
  \* testimonials (main.js)
  testimonialButtons, testimonialPanels, activeIndex,
  buttonActive, panelActive, lastTestimonial,
  \* global search (portal script)
  now,            \* milliseconds since the page loaded
  inputValue,     \* value of #global-search, a sequence of characters
  searchTimers,   \* pending setTimeout callbacks of the search box
  searchTimeout,  \* handle of the timer the input handler set last
  searchClear,    \* style.display of #search-clear
  searchResults,  \* #search-results: style.display and content
  inputCount,     \* input events dispatched so far
  lastQuery,      \* the latest input event with a non-empty query
  lastSearch,     \* the latest performSearch call and what it saw
  searchedInputs, \* input events whose query was searched
  superseded,     \* input events followed by a non-empty input before their timer ran
  \* copy buttons (main.js)
  copyLabels,     \* defaultLabel, successLabel, fallbackLabel of the button
  copyButton,     \* its text, its pending reset timers, uncaught errors
  copyPromises,   \* writeText calls that have not settled, by outcome
  copyClicks,     \* clicks so far
  lastCopy,       \* what the button's code did last
  \* newsletter form (portal script)
  newsForm,       \* the form: which elements it has, button, message, display
  newsRequests,   \* requests in flight
  newsSubmits,    \* submit events so far
  lastNews        \* what the submit listener did last

pageVars == << userRole, canUseAI, stepModule, tourOptions >>
tourVars == << userRole, canUseAI, stepModule, tourOptions,
               sharedSteps, phase, tour, last >>
testimonialVars == << testimonialButtons, testimonialPanels, activeIndex,
                      buttonActive, panelActive, lastTestimonial >>
searchVars == << now, inputValue, searchTimers, searchTimeout, searchClear, searchResults,
                 inputCount, lastQuery, lastSearch, searchedInputs, superseded >>
copyVars == << copyLabels, copyButton, copyPromises, copyClicks, lastCopy >>
newsVars == << newsForm, newsRequests, newsSubmits, lastNews >>
vars == << tourVars, testimonialVars, searchVars, copyVars, newsVars >>

\* ------------------------------------------------------------------------
\* OnboardingTour
\* ------------------------------------------------------------------------
StepModules == {"buildTourSteps", "getRoleSteps"}

ModuleSteps(m) == IF m = "buildTourSteps" THEN onboardingSteps ELSE legacyOnboardingSteps

\* defaults of the constructor, overridden by the keys of the argument
defaultOptions ==
  [showProgress |-> TRUE, allowSkip |-> TRUE, showChecklist |-> TRUE,
   exitOnClickOutside |-> FALSE]

mergeOptions(options) ==
  [k \in DOMAIN defaultOptions |->
     IF k \in DOMAIN options THEN options[k] ELSE defaultOptions[k]]

NoOptions == [k \in {} |-> TRUE]

OptionArgs == {NoOptions, [allowSkip |-> FALSE, showProgress |-> FALSE]}

DestroyDelay == 2000
FadeDelay == 300

destroyTimer == [fn |-> "destroy", delay |-> DestroyDelay]
removeTimer == [fn |-> "remove", delay |-> FadeDelay]

\* pending setTimeout callbacks, counted per callback
NoTimers == [destroy |-> 0, remove |-> 0]

\* the object right after the field initialisers of the constructor
newTour(steps, options) ==
  [steps |-> steps,
   currentStep |-> 0,
   options |-> mergeOptions(options),
   overlay |-> [created |-> FALSE, inDocument |-> FALSE, opacity |-> "0"],
   spotlight |-> [inDocument |-> FALSE, rectOf |-> "unset"],
   tooltip |-> [inDocument |-> FALSE, title |-> "", message |-> "",
                progressFill |-> << >>, stepCurrent |-> << >>, stepTotal |-> << >>,
                prevDisabled |-> FALSE, nextText |-> "Next", anchor |-> "unset"],
   keysBound |-> FALSE,
   rafPending |-> FALSE,
   timers |-> NoTimers,
   modals |-> 0,
   posts |-> 0,
   \* what the handler that ran last logged, scrolled to and decorated
   \* (like spotlight.rectOf and tooltip.anchor, its own effects only)
   console |-> "none",
   scrolled |-> "none",
   pulse |-> "none"]

\* every handler starts with a clean record of its own effects
handler(t) ==
  [t EXCEPT !.console = "none", !.scrolled = "none", !.pulse = "none",
            !.spotlight = [@ EXCEPT !.rectOf = "kept"],
            !.tooltip = [@ EXCEPT !.anchor = "kept"]]

createOverlay(t) ==
  [t EXCEPT !.overlay = [created |-> TRUE, inDocument |-> TRUE, opacity |-> "0"],
            !.rafPending = TRUE]

createSpotlight(t) ==
  [t EXCEPT !.spotlight = [inDocument |-> TRUE, rectOf |-> "unset"]]

createTooltip(t) ==
  [t EXCEPT !.tooltip = [@ EXCEPT !.inDocument = TRUE, !.title = "", !.message = "",
                                  !.prevDisabled = FALSE, !.nextText = "Next"]]

createProgressIndicator(t) ==
  IF t.options.showProgress
  THEN [t EXCEPT !.tooltip = [@ EXCEPT !.stepCurrent = textOf(1),
                                       !.stepTotal = textOf(Len(t.steps))]]
  ELSE t

\* highlightElement(selector): positions the spotlight on the element's
\* rectangle and the tooltip next to it; warns and returns when the
\* selector matches nothing (`found` is whether document.querySelector
\* finds the element).  A position written by the handler is represented by
\* the selector whose rectangle it was computed from; "kept" stands for a
\* style the handler did not write.
highlightElementClearsPosition(t, selector, found) ==
  IF ~found
  THEN [t EXCEPT !.console = selector,
                 !.spotlight = [@ EXCEPT !.rectOf = "unset"],
                 !.tooltip = [@ EXCEPT !.anchor = "unset"]]
  ELSE [t EXCEPT !.spotlight = [@ EXCEPT !.rectOf = selector],
                 !.tooltip = [@ EXCEPT !.anchor = selector]]

highlightElement(t, selector, found) ==
  IF ~found
  THEN [t EXCEPT !.console = selector]
  ELSE [t EXCEPT !.spotlight = [@ EXCEPT !.rectOf = selector],
                 !.tooltip = [@ EXCEPT !.anchor = selector]]

scrollToElement(t, selector, found) ==
  IF ~found THEN t ELSE [t EXCEPT !.scrolled = selector]

\* the onShow callbacks of the step modules add a class to the step's
\* target when it exists
onShow(t, step, found) ==
  IF ~found THEN t ELSE [t EXCEPT !.pulse = step.target]

\* showStep's body with the button states left as the last step set them
showStepStaleButtons(t, index, found) ==
  LET step == t.steps[index + 1]
      t1 == [t EXCEPT !.currentStep = index,
                      !.tooltip = [@ EXCEPT !.title = step.title,
                                            !.message = step.message]]
      t2 == IF t.options.showProgress
            THEN [t1 EXCEPT !.tooltip = [@ EXCEPT
                     !.progressFill = << (index + 1) * 100, Len(t.steps) >>,
                     !.stepCurrent = textOf(index + 1)]]
            ELSE t1
      t4 == highlightElement(t2, step.target, found)
      t5 == IF step.scrollTo # FALSE THEN scrollToElement(t4, step.target, found) ELSE t4
  IN  IF step.onShow THEN onShow(t5, step, found) ELSE t5

showStepUnchecked(t, index, found) ==
  LET step == t.steps[index + 1]
      t1 == [t EXCEPT !.currentStep = index,
                      !.tooltip = [@ EXCEPT !.title = step.title,
                                            !.message = step.message]]
      t2 == IF t.options.showProgress
            THEN [t1 EXCEPT !.tooltip = [@ EXCEPT
                     !.progressFill = << (index + 1) * 100, Len(t.steps) >>,
                     !.stepCurrent = textOf(index + 1)]]
            ELSE t1
      t3 == [t2 EXCEPT !.tooltip = [@ EXCEPT
                     !.prevDisabled = (index = 0),
                     !.nextText = IF index = Len(t.steps) - 1 THEN "Finish" ELSE "Next"]]
      t4 == highlightElement(t3, step.target, found)
      t5 == IF step.scrollTo # FALSE THEN scrollToElement(t4, step.target, found) ELSE t4
  IN  IF step.onShow THEN onShow(t5, step, found) ELSE t5

showStepNoUpperBound(t, index, found) ==
  IF index < 0 THEN t
  ELSE IF index >= Len(t.steps)
       THEN [t EXCEPT !.currentStep = index]
       ELSE showStepUnchecked(t, index, found)

showStep(t, index, found) ==
  IF index < 0 \/ index >= Len(t.steps) THEN t
  ELSE showStepUnchecked(t, index, found)

bindKeyboardShortcuts(t) == [t EXCEPT !.keysBound = TRUE]

init(t, found) ==
  showStep(bindKeyboardShortcuts(createProgressIndicator(createTooltip(
             createSpotlight(createOverlay(t))))), 0, found)

constructor(steps, options, found) == init(newTour(steps, options), found)

destroy(t) ==
  [t EXCEPT !.overlay = [@ EXCEPT !.opacity = "0"],
            !.timers = [@ EXCEPT ![removeTimer.fn] = @ + 1]]

\* the callback destroy() schedules
removeElements(t) ==
  [t EXCEPT !.overlay = [@ EXCEPT !.inDocument = FALSE],
            !.spotlight = [@ EXCEPT !.inDocument = FALSE],
            !.tooltip = [@ EXCEPT !.inDocument = FALSE]]

showCompletionModal(t) == [t EXCEPT !.modals = @ + 1]

markComplete(t) == [t EXCEPT !.posts = @ + 1]

completeTour(t) ==
  [markComplete(showCompletionModal(t)) EXCEPT !.timers = [@ EXCEPT ![destroyTimer.fn] = @ + 1]]

nextStepSkipsOne(t, found) ==
  IF t.currentStep < Len(t.steps) - 1
  THEN showStep(t, t.currentStep + 2, found)
  ELSE completeTour(t)

nextStepCompletesEarly(t, found) ==
  IF t.currentStep < Len(t.steps) - 2
  THEN showStep(t, t.currentStep + 1, found)
  ELSE completeTour(t)

nextStep(t, found) ==
  IF t.currentStep < Len(t.steps) - 1
  THEN showStep(t, t.currentStep + 1, found)
  ELSE completeTour(t)

previousStep(t, found) ==
  IF t.currentStep > 0
  THEN showStep(t, t.currentStep - 1, found)
  ELSE t

skipTourNoConfirm(t, confirmed) == destroy(t)

\* skipTour(): `confirmed` is what confirm() returned
skipTour(t, confirmed) ==
  IF confirmed THEN destroy(t) ELSE t

Keys == {"ArrowRight", "Enter", "ArrowLeft", "Escape", "Tab"}

\* the keydown listener bound by bindKeyboardShortcuts
keydown(t, key, confirmed, found) ==
  IF ~t.overlay.created THEN t
  ELSE CASE key \in {"ArrowRight", "Enter"} -> nextStep(t, found)
         [] key = "ArrowLeft" -> previousStep(t, found)
         [] key = "Escape" -> skipTour(t, confirmed)
         [] OTHER -> t

keydownCall(t, key) ==
  IF ~t.overlay.created THEN "none"
  ELSE CASE key \in {"ArrowRight", "Enter"} -> "nextStep"
         [] key = "ArrowLeft" -> "previousStep"
         [] key = "Escape" -> "skipTour"
         [] OTHER -> "none"

\* where an index handed to showStep lies
RangeOf(t, index) ==
  IF index < 0 THEN "below" ELSE IF index >= Len(t.steps) THEN "above" ELSE "in"

Event(e, c, confirmed, range) ==
  [event |-> e, call |-> c, confirmed |-> confirmed, range |-> range]

\* whether the call reaches the body of showStep and so looks the target
\* up; when it does not, there is no lookup whose outcome could differ
Shows(t, c) ==
  \/ c = "nextStep" /\ t.currentStep < Len(t.steps) - 1
  \/ c = "previousStep" /\ t.currentStep > 0

\* the model stops before a counter or the timer queue outgrows its bound
CanNext(t) == t.currentStep < Len(t.steps) - 1 \/ t.posts < MaxCompletions
CanSkip(t, confirmed) == confirmed => t.timers[removeTimer.fn] < MaxPending
CanCall(t, c, confirmed) ==
  /\ c = "nextStep" => CanNext(t)
  /\ c = "skipTour" => CanSkip(t, confirmed)

BuildSteps ==
  IF stepModule = "buildTourSteps"
  THEN buildTourSteps(sharedSteps, userRole, canUseAI)
  ELSE getRoleSteps(sharedSteps, userRole)

\* the page builds the steps for the signed-in user and starts the tour
StartTour(found) ==
  /\ phase = "page"
  /\ phase' = "tour"
  /\ tour' = constructor(BuildSteps.steps, tourOptions, found)
  /\ sharedSteps' = BuildSteps.onboardingSteps
  /\ last' = Event("load", "constructor", FALSE, "in")
  /\ UNCHANGED pageVars

\* the requestAnimationFrame callback of createOverlay; it runs with the
\* first frame after the constructor, before any input event or timer
AnimationFrame ==
  /\ phase = "tour"
  /\ tour.rafPending
  /\ tour' = [handler(tour) EXCEPT !.rafPending = FALSE,
                          !.overlay = [@ EXCEPT !.opacity = "1"]]
  /\ last' = Event("frame", "none", FALSE, "in")
  /\ UNCHANGED << pageVars, sharedSteps, phase >>

KeyDown(key, confirmed, found) ==
  /\ phase = "tour"
  /\ tour.keysBound
  /\ ~tour.rafPending
  /\ CanCall(tour, keydownCall(tour, key), confirmed)
  /\ key # "Escape" => ~confirmed
  /\ found \/ Shows(tour, keydownCall(tour, key))
  /\ tour' = keydown(handler(tour), key, confirmed, found)
  /\ last' = Event("key", keydownCall(tour, key), confirmed, "in")
  /\ UNCHANGED << pageVars, sharedSteps, phase >>

ClickNext(found) ==
  /\ phase = "tour"
  /\ ~tour.rafPending
  /\ tour.tooltip.inDocument
  /\ CanNext(tour)
  /\ found \/ Shows(tour, "nextStep")
  /\ tour' = nextStep(handler(tour), found)
  /\ last' = Event("click", "nextStep", FALSE, "in")
  /\ UNCHANGED << pageVars, sharedSteps, phase >>

\* a disabled button receives no click
ClickPrevious(found) ==
  /\ phase = "tour"
  /\ ~tour.rafPending
  /\ tour.tooltip.inDocument
  /\ ~tour.tooltip.prevDisabled
  /\ found \/ Shows(tour, "previousStep")
  /\ tour' = previousStep(handler(tour), found)
  /\ last' = Event("click", "previousStep", FALSE, "in")
  /\ UNCHANGED << pageVars, sharedSteps, phase >>

ClickClose(confirmed) ==
  /\ phase = "tour"
  /\ ~tour.rafPending
  /\ tour.tooltip.inDocument
  /\ CanSkip(tour, confirmed)
  /\ tour' = skipTour(handler(tour), confirmed)
  /\ last' = Event("click", "skipTour", confirmed, "in")
  /\ UNCHANGED << pageVars, sharedSteps, phase >>

\* a caller (an onShow callback, the console) invokes showStep(index)
ShowStepCall(index, found) ==
  /\ phase = "tour"
  /\ ~tour.rafPending
  /\ found \/ RangeOf(tour, index) = "in"
  /\ tour' = showStep(handler(tour), index, found)
  /\ last' = Event("call", "showStep", FALSE, RangeOf(tour, index))
  /\ UNCHANGED << pageVars, sharedSteps, phase >>

\* a pending setTimeout callback runs
TimerFires(timer) ==
  /\ phase = "tour"
  /\ ~tour.rafPending
  /\ tour.timers[timer.fn] > 0
  /\ LET rest == [handler(tour) EXCEPT !.timers = [@ EXCEPT ![timer.fn] = @ - 1]]
     IN  tour' = IF timer.fn = "destroy"
                 THEN destroy(rest)
                 ELSE removeElements(rest)
  /\ last' = Event("timer", timer.fn, FALSE, "in")
  /\ UNCHANGED << pageVars, sharedSteps, phase >>

AnyTimerFires == \E timer \in {destroyTimer, removeTimer} : TimerFires(timer)

TourIdle ==
  /\ userRole = "viewer"
  /\ canUseAI = FALSE
  /\ stepModule = "buildTourSteps"
  /\ tourOptions = NoOptions
  /\ sharedSteps = onboardingSteps
  /\ phase = "page"
  /\ tour = newTour(<< >>, NoOptions)
  /\ last = Event("none", "none", FALSE, "in")

TourInit ==
  /\ userRole \in Roles
  /\ stepModule \in StepModules
  \* only buildTourSteps takes the plan flag
  /\ canUseAI \in IF stepModule = "buildTourSteps" THEN BOOLEAN ELSE {FALSE}
  /\ tourOptions \in OptionArgs
  /\ sharedSteps = ModuleSteps(stepModule)
  /\ phase = "page"
  /\ tour = newTour(<< >>, NoOptions)
  /\ last = Event("none", "none", FALSE, "in")

TourNext ==
  \/ \E found \in BOOLEAN : StartTour(found)
  \/ AnimationFrame
  \/ \E key \in Keys, confirmed, found \in BOOLEAN : KeyDown(key, confirmed, found)
  \/ \E found \in BOOLEAN : ClickNext(found)
  \/ \E found \in BOOLEAN : ClickPrevious(found)
  \/ \E confirmed \in BOOLEAN : ClickClose(confirmed)
  \/ \E index \in (0 - IndexSlack) .. (Len(tour.steps) - 1 + IndexSlack), found \in BOOLEAN :
        ShowStepCall(index, found)
  \/ AnyTimerFires

\* ------------------------------------------------------------------------
\* Testimonials (main.js)
\* ------------------------------------------------------------------------
\* at most this many testimonial buttons and panels on the page
MaxTestimonials == 3

\* values of the data-testimonial-button attribute
DatasetValues == {""} \cup { Digit[n + 1] : n \in 0 .. MaxTestimonials }

\* Number(string) on those values: the empty string converts to 0, a
\* decimal digit to its value
Number(s) == IF s = "" THEN 0 ELSE CHOOSE n \in 0 .. 9 : Digit[n + 1] = s

\* the handlers are installed only when both node lists are non-empty
TestimonialsInstalled == Len(testimonialButtons) > 0 /\ testimonialPanels > 0

\* classList.toggle('is-active', idx === index) over a node list of n nodes
toggleAll(n, index) == { idx \in 0 .. (n - 1) : idx = index }

setTestimonialStale(index) ==
  /\ activeIndex' = activeIndex
  /\ buttonActive' = toggleAll(Len(testimonialButtons), index)
  /\ panelActive' = toggleAll(testimonialPanels, index)

setTestimonial(index) ==
  /\ activeIndex' = index
  /\ buttonActive' = toggleAll(Len(testimonialButtons), index)
  /\ panelActive' = toggleAll(testimonialPanels, index)

TestimonialClick(b) ==
  /\ TestimonialsInstalled
  /\ b \in 1 .. Len(testimonialButtons)
  /\ setTestimonial(Number(testimonialButtons[b]))
  /\ lastTestimonial' = [event |-> "click", index |-> Number(testimonialButtons[b])]
  /\ UNCHANGED << testimonialButtons, testimonialPanels >>

RotationInterval == 6000

\* the setInterval callback
TestimonialTick ==
  /\ TestimonialsInstalled
  /\ LET next == (activeIndex + 1) % Len(testimonialButtons)
     IN  /\ setTestimonial(next)
         /\ lastTestimonial' = [event |-> "tick", index |-> next]
  /\ UNCHANGED << testimonialButtons, testimonialPanels >>

Seqs(S, n) == UNION { [1 .. k -> S] : k \in 0 .. n }

TestimonialIdle ==
  /\ testimonialButtons = << >>
  /\ testimonialPanels = 0
  /\ activeIndex = 0
  /\ buttonActive = {}
  /\ panelActive = {}
  /\ lastTestimonial = [event |-> "none", index |-> 0]

TestimonialInit ==
  /\ testimonialButtons \in Seqs(DatasetValues, MaxTestimonials)
  /\ testimonialPanels \in 0 .. MaxTestimonials
  /\ activeIndex = 0
  /\ buttonActive = toggleAll(Len(testimonialButtons), 0)
  /\ panelActive = toggleAll(testimonialPanels, 0)
  /\ lastTestimonial = [event |-> "none", index |-> 0]

TestimonialNext ==
  \/ \E b \in 1 .. MaxTestimonials : TestimonialClick(b)
  \/ TestimonialTick

\* ------------------------------------------------------------------------
\* Global search (portal script)
\* ------------------------------------------------------------------------
\* input events per run, and clock steps per run
MaxInputs == 3
MaxClockSteps == 6
DebounceDelay == 300
ClockStep == DebounceDelay \div 3
MaxTime == MaxClockSteps * ClockStep

\* values the search box takes: empty, blank, with matches (with and without
\* surrounding blanks and capitals) and without matches
InputValues ==
  { << >>, << " " >>, << "a" >>, << "a", "S" >>, << " ", "S", " " >>, << "z", "z" >> }

\* String.prototype.trim on a sequence of characters
trim(v) ==
  LET kept == { i \in 1 .. Len(v) : v[i] # " " }
      first == CHOOSE i \in kept : \A j \in kept : i <= j
      final == CHOOSE i \in kept : \A j \in kept : i >= j
  IN  IF kept = {} THEN << >> ELSE SubSeq(v, first, final)

toLowerCase(s) ==
  [i \in 1 .. Len(s) |->
     IF \E k \in 1 .. Len(UpperCase) : UpperCase[k] = s[i]
     THEN LowerCase[CHOOSE k \in 1 .. Len(UpperCase) : UpperCase[k] = s[i]]
     ELSE s[i]]

NoQuery == [input |-> 0, query |-> << >>, at |-> 0]
NoSearch == [input |-> 0, query |-> << >>, at |-> 0, latest |-> NoQuery]
HiddenResults == [display |-> "none", content |-> "", query |-> << >>, titles |-> << >>, input |-> 0]

\* displayResults(results, query)
displayResults(results, query, input) ==
  IF Len(results) = 0
  THEN [display |-> "block", content |-> "empty", query |-> query,
        titles |-> << >>, input |-> input]
  ELSE [display |-> "block", content |-> "results", query |-> << >>,
        titles |-> [i \in 1 .. Len(results) |-> results[i].title], input |-> input]

\* performSearch(query): the items whose lower-cased title includes the
\* lower-cased query, in the order of searchableItems
performSearch(query, input) ==
  LET lowercaseQuery == toLowerCase(query)
      matches(item) == seqIncludes(toLowerCase(item.title), lowercaseQuery)
  IN  displayResults(SelectSeq(searchableItems, matches), query, input)

\* clearTimeout(handle): the timer with that handle, if still pending, is
\* cancelled; a handle is the number of the input event that set the timer
clearTimeoutSkipped(timers, handle) == timers

clearTimeout(timers, handle) == { t \in timers : t.input # handle }

\* the "input" listener of #global-search
SearchInput(value) ==
  /\ inputCount < MaxInputs
  /\ value # inputValue
  /\ inputValue' = value
  /\ inputCount' = inputCount + 1
  /\ LET query == trim(value)
     IN  IF query # << >>
         THEN /\ searchClear' = "flex"
              /\ searchResults' = [display |-> "block", content |-> "loading",
                                   query |-> << >>, titles |-> << >>, input |-> 0]
              /\ searchTimers' = clearTimeout(searchTimers, searchTimeout) \cup
                                   {[input |-> inputCount + 1, query |-> query,
                                     due |-> now + DebounceDelay]}
              /\ searchTimeout' = inputCount + 1
              /\ superseded' = superseded \cup { t.input : t \in searchTimers }
              /\ lastQuery' = [input |-> inputCount + 1, query |-> query, at |-> now]
         ELSE /\ searchClear' = "none"
              /\ searchResults' = [searchResults EXCEPT !.display = "none"]
              /\ UNCHANGED << searchTimers, searchTimeout, superseded, lastQuery >>
  /\ UNCHANGED << now, lastSearch, searchedInputs >>

\* a pending debounce timer runs, at or after the time it is due
SearchTimerFires ==
  /\ \E t \in searchTimers :
       /\ now >= t.due
       /\ searchTimers' = searchTimers \ {t}
       /\ searchResults' = performSearch(t.query, t.input)
       /\ searchedInputs' = searchedInputs \cup {t.input}
       /\ lastSearch' = [input |-> t.input, query |-> t.query, at |-> now,
                         latest |-> lastQuery]
  /\ UNCHANGED << now, inputValue, searchTimeout, searchClear, inputCount,
                  lastQuery, superseded >>

\* click on #search-clear, and Escape in the search box: the value is
\* emptied by script (no input event follows) and the results are hidden
SearchClearClick ==
  /\ searchClear = "flex"
  /\ inputValue' = << >>
  /\ searchClear' = "none"
  /\ searchResults' = [searchResults EXCEPT !.display = "none"]
  /\ UNCHANGED << now, searchTimers, searchTimeout, inputCount, lastQuery,
                  lastSearch, searchedInputs, superseded >>

SearchEscape ==
  /\ inputValue' = << >>
  /\ searchClear' = "none"
  /\ searchResults' = [searchResults EXCEPT !.display = "none"]
  /\ UNCHANGED << now, searchTimers, searchTimeout, inputCount, lastQuery,
                  lastSearch, searchedInputs, superseded >>

\* click outside the search box and the results
SearchClickOutside ==
  /\ searchResults.display = "block"
  /\ searchResults' = [searchResults EXCEPT !.display = "none"]
  /\ UNCHANGED << now, inputValue, searchTimers, searchTimeout, searchClear,
                  inputCount, lastQuery, lastSearch, searchedInputs, superseded >>

ClockAdvances ==
  /\ now < MaxTime
  /\ now' = now + ClockStep
  /\ UNCHANGED << inputValue, searchTimers, searchTimeout, searchClear, searchResults,
                  inputCount, lastQuery, lastSearch, searchedInputs, superseded >>

SearchInit ==
  /\ now = 0
  /\ inputValue = << >>
  /\ searchTimers = {}
  /\ searchTimeout = 0
  /\ searchClear = "none"
  /\ searchResults = HiddenResults
  /\ inputCount = 0
  /\ lastQuery = NoQuery
  /\ lastSearch = NoSearch
  /\ searchedInputs = {}
  /\ superseded = {}

SearchNext ==
  \/ \E value \in InputValues : SearchInput(value)
  \/ SearchTimerFires
  \/ SearchClearClick
  \/ SearchEscape
  \/ SearchClickOutside
  \/ ClockAdvances

\* ------------------------------------------------------------------------
\* Copy buttons (main.js)
\* ------------------------------------------------------------------------
\* clicks on the button per run
MaxClicks == 3

\* the labels the script falls back to; the source spells the fallback with
\* the command-key sign where this text has "Cmd-"
CopiedText == << "C", "o", "p", "i", "e", "d", "!" >>
PressKeysText == << "P", "r", "e", "s", "s", " ", "C", "m", "d", "-", "C", " ", "/", " ", "C", "t", "r", "l", "+", "C" >>

\* a || b on strings: the empty string is falsy
orElse(a, b) == IF a # << >> THEN a ELSE b

\* defaultLabel, successLabel and fallbackLabel of one button
copyLabelsOf(dataset, textContent) ==
  [default |-> orElse(dataset.copyLabel, trim(textContent)),
   success |-> orElse(dataset.copySuccess, CopiedText),
   fallback |-> orElse(dataset.copyFallback, PressKeysText)]

\* data-copy-* attributes and text of the buttons the pages carry
CopyDatasets ==
  { [copyLabel |-> l, copySuccess |-> s, copyFallback |-> f] :
      l \in {<< >>, << "C", "o", "p", "y" >>}, s \in {<< >>, << "D", "o", "n", "e" >>}, f \in {<< >>, << "S", "e", "l", "e", "c", "t" >>} }
CopyTexts == { << " ", "R", "u", "n", " " >> }

NoCopyTimers == [success |-> 0, fallback |-> 0]
NoCopyPromises == [resolve |-> 0, reject |-> 0]

SuccessResetDelay == 1500
FallbackResetDelay == 2000

\* the statements after the await, when writeText resolved
onCopied(b, labels) ==
  [b EXCEPT !.text = labels.success, !.timers.success = @ + 1, !.touched = TRUE]

\* the catch block, when writeText rejected or threw
onCopyFailedUncaught(b, labels) == [b EXCEPT !.uncaught = @ + 1]

onCopyFailed(b, labels) ==
  [b EXCEPT !.text = labels.fallback, !.timers.fallback = @ + 1, !.touched = TRUE]

\* the click listener up to the await: `found` is whether the copy target
\* exists, `clipboard` what navigator.clipboard.writeText does
CopyClick(found, clipboard) ==
  /\ copyClicks < MaxClicks
  /\ copyClicks' = copyClicks + 1
  /\ found \/ clipboard = "resolve"
  /\ IF ~found
     THEN /\ lastCopy' = "no-target"
          /\ UNCHANGED << copyButton, copyPromises >>
     ELSE IF clipboard = "throw"
          THEN /\ copyButton' = onCopyFailed(copyButton, copyLabels)
               /\ lastCopy' = "failed"
               /\ UNCHANGED copyPromises
          ELSE /\ copyPromises' = [copyPromises EXCEPT ![clipboard] = @ + 1]
               /\ lastCopy' = "awaiting"
               /\ UNCHANGED copyButton
  /\ UNCHANGED copyLabels

\* a writeText promise settles and the listener resumes
CopySettles(outcome) ==
  /\ copyPromises[outcome] > 0
  /\ copyPromises' = [copyPromises EXCEPT ![outcome] = @ - 1]
  /\ IF outcome = "resolve"
     THEN copyButton' = onCopied(copyButton, copyLabels) /\ lastCopy' = "copied"
     ELSE copyButton' = onCopyFailed(copyButton, copyLabels) /\ lastCopy' = "failed"
  /\ UNCHANGED << copyLabels, copyClicks >>

\* a reset timer runs
CopyTimerFires(kind) ==
  /\ copyButton.timers[kind] > 0
  /\ copyButton' = [copyButton EXCEPT !.timers[kind] = @ - 1, !.text = copyLabels.default]
  /\ lastCopy' = "reset"
  /\ UNCHANGED << copyLabels, copyClicks, copyPromises >>

AnyCopyTimerFires == \E kind \in {"success", "fallback"} : CopyTimerFires(kind)

CopyIdle ==
  /\ copyLabels = copyLabelsOf([copyLabel |-> << >>, copySuccess |-> << >>,
                                copyFallback |-> << >>], << >>)
  /\ copyButton = [text |-> << >>, timers |-> NoCopyTimers, uncaught |-> 0, touched |-> FALSE]
  /\ copyPromises = NoCopyPromises
  /\ copyClicks = 0
  /\ lastCopy = "none"

CopyInit ==
  /\ \E dataset \in CopyDatasets, textContent \in CopyTexts :
       /\ copyLabels = copyLabelsOf(dataset, textContent)
       /\ copyButton = [text |-> textContent, timers |-> NoCopyTimers,
                        uncaught |-> 0, touched |-> FALSE]
  /\ copyPromises = NoCopyPromises
  /\ copyClicks = 0
  /\ lastCopy = "none"

CopyNext ==
  \/ \E found \in BOOLEAN, clipboard \in {"resolve", "reject", "throw"} :
        CopyClick(found, clipboard)
  \/ \E outcome \in {"resolve", "reject"} : CopySettles(outcome)
  \/ AnyCopyTimerFires

\* ------------------------------------------------------------------------
\* Newsletter form (portal script)
\* ------------------------------------------------------------------------
\* submit events per run
MaxSubmits == 3

\* values of the email field: empty, blank, an address with and without
\* surrounding blanks
EmailValues == { << >>, << " " >>, << "a", "@", "b" >>, << " ", "a", "@", "b", " " >> }

\* texts of the submit button as the pages render it
SubmitTexts == {"Subscribe", "Join"}

\* how a request ends: a response whose JSON reports success, one that
\* reports an error with or without an error text, a rejected fetch, and a
\* body that response.json() rejects
Outcomes == {"success", "error", "error-blank", "network", "json"}

ErrorColor == "#ef4444"
SuccessColor == "#10b981"

\* showMessage(text, isSuccess): writes only when the message element exists
showMessage(f, text, isSuccess) ==
  IF f.hasMessage
  THEN [f EXCEPT !.message = [text |-> text, display |-> "block",
                              color |-> IF isSuccess THEN SuccessColor ELSE ErrorColor]]
  ELSE f

\* the statements before the fetch, for a non-empty email
beforeFetch(f) ==
  IF f.hasSubmit
  THEN [f EXCEPT !.button = [disabled |-> TRUE, text |-> "Subscribing..."]]
  ELSE f

\* the try and catch blocks once the request has ended
afterFetch(f, outcome) ==
  CASE outcome = "success" ->
         [showMessage(f, "Thanks for subscribing!", TRUE) EXCEPT !.display = "none"]
    [] outcome = "error" -> showMessage(f, "This email is already subscribed.", FALSE)
    [] outcome = "error-blank" ->
         showMessage(f, "Something went wrong. Please try again.", FALSE)
    [] OTHER -> showMessage(f, "Connection error. Please try again.", FALSE)

\* the finally block
finallyBlockMissing(f) == f

finallyBlock(f) ==
  IF f.hasSubmit
  THEN [f EXCEPT !.button = [disabled |-> FALSE, text |-> "Subscribe"]]
  ELSE f

\* a submit event reaches the listener: the form is shown and its default
\* button, when there is one, is enabled
NewsSubmit(email) ==
  /\ newsSubmits < MaxSubmits
  /\ newsForm.display # "none"
  /\ newsForm.hasSubmit => ~newsForm.button.disabled
  /\ newsForm.hasEmail \/ email = << >>
  /\ newsSubmits' = newsSubmits + 1
  /\ IF trim(email) = << >>
     THEN /\ newsForm' = showMessage(newsForm, "Please enter your email address.", FALSE)
          /\ lastNews' = [event |-> "empty", outcome |-> "none"]
          /\ UNCHANGED newsRequests
     ELSE /\ newsForm' = beforeFetch(newsForm)
          /\ newsRequests' = newsRequests + 1
          /\ lastNews' = [event |-> "sent", outcome |-> "none"]

\* a request ends and the listener runs to its end
NewsSettles(outcome) ==
  /\ newsRequests > 0
  /\ newsRequests' = newsRequests - 1
  /\ newsForm' = finallyBlock(afterFetch(newsForm, outcome))
  /\ lastNews' = [event |-> "settled", outcome |-> outcome]
  /\ UNCHANGED newsSubmits

NoMessage == [text |-> "", display |-> "", color |-> ""]

NewsIdle ==
  /\ newsForm = [hasSubmit |-> FALSE, hasMessage |-> FALSE, hasEmail |-> FALSE,
                 button |-> [disabled |-> FALSE, text |-> ""],
                 message |-> NoMessage, display |-> ""]
  /\ newsRequests = 0
  /\ newsSubmits = 0
  /\ lastNews = [event |-> "none", outcome |-> "none"]

NewsInit ==
  /\ \E hasSubmit, hasMessage, hasEmail \in BOOLEAN, text \in SubmitTexts :
       newsForm = [hasSubmit |-> hasSubmit, hasMessage |-> hasMessage, hasEmail |-> hasEmail,
                   button |-> [disabled |-> FALSE, text |-> IF hasSubmit THEN text ELSE ""],
                   message |-> NoMessage, display |-> ""]
  /\ newsRequests = 0
  /\ newsSubmits = 0
  /\ lastNews = [event |-> "none", outcome |-> "none"]

NewsNext ==
  \/ \E email \in EmailValues : NewsSubmit(email)
  \/ \E outcome \in Outcomes : NewsSettles(outcome)

\* ------------------------------------------------------------------------
\* Specifications
\* ------------------------------------------------------------------------
\* the onboarding tour
Init == TourInit /\ TestimonialIdle /\ SearchInit /\ CopyIdle /\ NewsIdle

Next == TourNext /\ UNCHANGED << testimonialVars, searchVars, copyVars, newsVars >>

Spec == Init /\ [][Next]_vars

\* a setTimeout callback that stays pending runs eventually
FairSpec ==
  Spec /\ WF_vars(AnyTimerFires /\ UNCHANGED << testimonialVars, searchVars, copyVars, newsVars >>)

\* the testimonial rotation
TestimonialSpecInit == TourIdle /\ TestimonialInit /\ SearchInit /\ CopyIdle /\ NewsIdle

TestimonialSpecNext == TestimonialNext /\ UNCHANGED << tourVars, searchVars, copyVars, newsVars >>

TestimonialSpec == TestimonialSpecInit /\ [][TestimonialSpecNext]_vars

\* the global search
SearchSpecInit == TourIdle /\ TestimonialIdle /\ SearchInit /\ CopyIdle /\ NewsIdle

SearchSpecNext == SearchNext /\ UNCHANGED << tourVars, testimonialVars, copyVars, newsVars >>

SearchSpec == SearchSpecInit /\ [][SearchSpecNext]_vars

\* a copy button
CopySpecInit == TourIdle /\ TestimonialIdle /\ SearchInit /\ CopyInit /\ NewsIdle

CopySpecNext == CopyNext /\ UNCHANGED << tourVars, testimonialVars, searchVars, newsVars >>

CopySpec == CopySpecInit /\ [][CopySpecNext]_vars

\* its reset timers run eventually
CopyFairSpec ==
  CopySpec /\ WF_vars(AnyCopyTimerFires /\ UNCHANGED << tourVars, testimonialVars, searchVars, newsVars >>)

\* a newsletter form
NewsSpecInit == TourIdle /\ TestimonialIdle /\ SearchInit /\ CopyIdle /\ NewsInit

NewsSpecNext == NewsNext /\ UNCHANGED << tourVars, testimonialVars, searchVars, copyVars >>

NewsSpec == NewsSpecInit /\ [][NewsSpecNext]_vars

\* ------------------------------------------------------------------------
\* Properties
\* ------------------------------------------------------------------------
Running == phase = "tour"
LastIndex == Len(tour.steps) - 1
Titles(stepList) == [i \in 1 .. Len(stepList) |-> stepList[i].title]
ElementsRemoved ==
  ~tour.overlay.inDocument /\ ~tour.spotlight.inDocument /\ ~tour.tooltip.inDocument

\* C1: in a tour with at least one step currentStep stays within
\* 0 .. steps.length - 1 whatever is called or pressed, and showStep with an
\* index outside that range has no effect at all.
C1_CurrentStepInRange ==
  /\ [](Running /\ Len(tour.steps) >= 1 =>
          tour.currentStep >= 0 /\ tour.currentStep <= LastIndex)
  /\ [][(Running /\ last'.call = "showStep" /\ last'.range # "in") =>
          tour' = handler(tour)]_vars

C1_Witness ==
  /\ Running
  /\ last.call = "showStep" /\ last.range = "above"
  /\ tour.currentStep = LastIndex

\* C2: nextStep moves from a step k that is not the last to k + 1 and at the
\* last step leaves currentStep alone and completes the tour; previousStep
\* moves from k > 0 to k - 1 and stays at 0.
C2_LinearNavigation ==
  [][/\ (Running /\ last'.call = "nextStep") =>
          IF tour.currentStep < LastIndex
          THEN tour'.currentStep = tour.currentStep + 1
          ELSE tour'.currentStep = tour.currentStep /\ tour'.posts = tour.posts + 1
     /\ (Running /\ last'.call = "previousStep") =>
          IF tour.currentStep > 0
          THEN tour'.currentStep = tour.currentStep - 1
          ELSE tour'.currentStep = 0]_vars

C2_Witness ==
  /\ Running
  /\ last.call = "nextStep"
  /\ tour.currentStep = LastIndex
  /\ tour.posts = 0

\* C3: nextStep on the last step shows the completion modal, issues the
\* completion request and schedules destroy; nextStep on any other step
\* does none of that; and once the tour has completed, the overlay, the
\* spotlight and the tooltip are eventually removed from the document.
C3_CompletionRemovesTour ==
  /\ [][(Running /\ last'.call = "nextStep") =>
          IF tour.currentStep = LastIndex
          THEN /\ tour'.modals = tour.modals + 1
               /\ tour'.posts = tour.posts + 1
               /\ tour'.timers.destroy = tour.timers.destroy + 1
          ELSE /\ tour'.modals = tour.modals
               /\ tour'.posts = tour.posts
               /\ tour'.timers = tour.timers]_vars
  /\ (tour.posts > 0) ~> ElementsRemoved

C3_Witness ==
  /\ tour.posts > 0
  /\ tour.modals > 0
  /\ ElementsRemoved

\* C4: with options.allowSkip = false neither the close button nor Escape
\* destroys a tour that has not been completed.
C4_NoSkipWhenDisallowed ==
  [][(Running /\ ~tour.options.allowSkip /\ tour.posts = 0 /\ last'.call = "skipTour") =>
        /\ tour'.timers = tour.timers
        /\ tour'.overlay = tour.overlay]_vars

\* C5: skipTour destroys the tour only when the exit dialog is confirmed; a
\* declined dialog leaves currentStep and every element as they were, with
\* the keyboard handler and the buttons still in place.
C5_SkipNeedsConfirmation ==
  [][(Running /\ last'.call = "skipTour") =>
        IF last'.confirmed
        THEN /\ tour'.timers.remove = tour.timers.remove + 1
             /\ tour'.overlay.opacity = "0"
        ELSE /\ tour' = handler(tour)
             /\ tour'.keysBound]_vars

C5_Witness ==
  /\ Running
  /\ last.call = "skipTour" /\ ~last.confirmed
  /\ tour.currentStep > 0
  /\ tour.overlay.inDocument /\ tour.tooltip.inDocument
  /\ tour.timers = NoTimers

\* C6: for a role other than viewer buildTourSteps returns the six base
\* steps, with the AI Screening step right after Jobs & Positions when
\* canUseAI is set; the first step is the welcome step, the last is
\* "You're All Set!", and the module-level array is left as it was.
C6_BuildTourSteps ==
  (Running /\ stepModule = "buildTourSteps" /\ userRole # "viewer") =>
     /\ IF canUseAI
        THEN /\ Len(tour.steps) = Len(onboardingSteps) + 1
             /\ \E k \in 1 .. Len(onboardingSteps) :
                   /\ tour.steps[k].title = "Jobs & Positions"
                   /\ tour.steps[k + 1] = aiScreeningStep
                   /\ SubSeq(tour.steps, 1, k) \o SubSeq(tour.steps, k + 2, Len(tour.steps))
                        = onboardingSteps
        ELSE tour.steps = onboardingSteps
     /\ tour.steps[1].title = "Welcome to Evalon!"
     /\ tour.steps[Len(tour.steps)].title = "You're All Set!"
     /\ sharedSteps = onboardingSteps

C6_Witness ==
  /\ Running /\ stepModule = "buildTourSteps" /\ userRole = "manager" /\ canUseAI
  /\ Len(tour.steps) = 7

\* C7: for a viewer buildTourSteps returns, whatever canUseAI is, the base
\* steps without Jobs & Positions, in their original order, and never the
\* AI Screening step.
C7_ViewerSteps ==
  (Running /\ stepModule = "buildTourSteps" /\ userRole = "viewer") =>
     /\ \A i \in 1 .. Len(tour.steps) :
           tour.steps[i].title \notin {"Jobs & Positions", "AI Screening"}
     /\ Titles(tour.steps) = << "Welcome to Evalon!", "Your Vacancy Page",
                                "Hiring Metrics", "Your Candidates", "You're All Set!" >>
     /\ \A i \in 1 .. Len(tour.steps) :
           \E j \in 1 .. Len(onboardingSteps) : tour.steps[i] = onboardingSteps[j]

C7_Witness ==
  /\ Running /\ stepModule = "buildTourSteps" /\ userRole = "viewer" /\ canUseAI
  /\ Len(tour.steps) = 5

\* C8: getRoleSteps('viewer') returns the steps in their original order
\* without those whose title contains 'Invite' or 'Organize', and nothing
\* else is dropped; every other role gets all the steps.
C8_RoleSteps ==
  (Running /\ stepModule = "getRoleSteps") =>
     IF userRole = "viewer"
     THEN /\ Titles(tour.steps) =
               << "Welcome to Evalon!", "Your Performance Dashboard", "Quick Actions",
                  "Browse Assessments", "Review Results", "Track Analytics",
                  "You're All Set!" >>
          /\ \A j \in 1 .. Len(legacyOnboardingSteps) :
                (\E i \in 1 .. Len(tour.steps) : tour.steps[i] = legacyOnboardingSteps[j])
                  <=> ~(\/ includes(legacyOnboardingSteps[j].title, "Invite")
                        \/ includes(legacyOnboardingSteps[j].title, "Organize"))
     ELSE tour.steps = legacyOnboardingSteps

C8_Witness ==
  /\ Running /\ stepModule = "getRoleSteps" /\ userRole = "viewer"
  /\ Len(tour.steps) = 7

\* C9: a tick shows testimonial (i + 1) mod (number of buttons), where i is
\* the testimonial the previous tick or click showed; and after a tick or a
\* click that shows an index i valid for both node lists, button i and
\* panel i are the only active button and panel.
C9_TestimonialRotation ==
  /\ []((lastTestimonial.event # "none"
           /\ lastTestimonial.index < Len(testimonialButtons)
           /\ lastTestimonial.index < testimonialPanels) =>
          /\ buttonActive = {lastTestimonial.index}
          /\ panelActive = {lastTestimonial.index})
  /\ [][(lastTestimonial.event # "none" /\ lastTestimonial'.event = "tick") =>
          lastTestimonial'.index =
             (lastTestimonial.index + 1) % Len(testimonialButtons)]_vars

C9_Witness ==
  /\ lastTestimonial.event = "tick"
  /\ lastTestimonial.index = 0
  /\ activeIndex = 0
  /\ Len(testimonialButtons) = 3
  /\ testimonialPanels = 3
  /\ buttonActive = {0} /\ panelActive = {0}

\* C10: performSearch runs only with the query of the latest input event
\* that had a non-empty query, and only when at least 300 ms have passed
\* since that event; an input event that a later non-empty input overtook
\* while its timer was pending is never searched, and its results are never
\* displayed.
C10_SearchDebounced ==
  /\ lastSearch.input # 0 =>
        /\ lastSearch.input = lastSearch.latest.input
        /\ lastSearch.query = lastSearch.latest.query
        /\ lastSearch.at - lastSearch.latest.at >= 300
  /\ searchedInputs \cap superseded = {}
  /\ searchResults.input \notin superseded

C10_Witness ==
  /\ superseded # {}
  /\ lastSearch.input = 2
  /\ lastSearch.query = << "a", "S" >>
  /\ searchResults.content = "results"

\* C11: a clipboard failure (rejection or throw) is caught and shows the
\* fallback label, a success shows the success label, and once the clicks
\* have stopped the button ends on its default label and keeps it.
C11_CopyLabelReturns ==
  /\ [](copyButton.uncaught = 0)
  /\ [](lastCopy = "failed" => copyButton.text = copyLabels.fallback)
  /\ [](lastCopy = "copied" => copyButton.text = copyLabels.success)
  /\ <>[](copyButton.touched => copyButton.text = copyLabels.default)

C11_Witness ==
  /\ copyClicks = MaxClicks
  /\ lastCopy = "reset"
  /\ copyButton.touched
  /\ copyButton.timers = NoCopyTimers
  /\ copyPromises = NoCopyPromises
  /\ copyButton.text = copyLabels.default

\* the parts of C12 about the request, the button and the form
NewsButtonAndForm ==
  /\ [][lastNews'.event = "empty" =>
          newsRequests' = newsRequests /\ newsForm'.button = newsForm.button]_vars
  /\ []((newsForm.hasSubmit /\ newsRequests > 0) => newsForm.button.disabled)
  /\ []((newsForm.hasSubmit /\ lastNews.event = "settled") =>
          newsForm.button = [disabled |-> FALSE, text |-> "Subscribe"])
  /\ [][newsForm'.display # newsForm.display =>
          lastNews'.event = "settled" /\ lastNews'.outcome = "success"]_vars

NewsFailed == lastNews.event = "settled" /\ lastNews.outcome # "success"
NewsErrorShown ==
  /\ newsForm.message.display = "block"
  /\ newsForm.message.color = ErrorColor
  /\ newsForm.message.text # ""

\* C12 as stated: an empty email sends nothing and leaves the button alone;
\* otherwise the button is disabled while the request is in flight and is
\* enabled and labelled 'Subscribe' after every outcome; the form is hidden
\* only on success; and every failure shows an error message.
C12_AsStated ==
  /\ NewsButtonAndForm
  /\ [](NewsFailed => NewsErrorShown)

\* C12 as the code has it: the same, except that a failure shows its error
\* message when the form has a message element, and shows nothing (and
\* throws nothing) when it has none.
C12_NewsletterSubmit ==
  /\ NewsButtonAndForm
  /\ [](NewsFailed => IF newsForm.hasMessage THEN NewsErrorShown
                      ELSE newsForm.message = NoMessage)

C12_Witness ==
  /\ newsForm.hasSubmit /\ newsForm.hasMessage
  /\ lastNews = [event |-> "settled", outcome |-> "json"]
  /\ newsForm.button = [disabled |-> FALSE, text |-> "Subscribe"]
  /\ newsForm.message.text = "Connection error. Please try again."
  /\ newsSubmits = 2

\* destroy() has run: it is the only writer of opacity '0' after the first
\* animation frame
Destroyed == Running /\ ~tour.rafPending /\ tour.overlay.opacity = "0"

\* C13: once destroy() has run, a keydown event calls none of nextStep,
\* previousStep and skipTour and changes nothing of the tour.
C13_KeysInertAfterDestroy ==
  [][(Destroyed /\ last'.event = "key") =>
       /\ last'.call = "none"
       /\ tour'.currentStep = tour.currentStep
       /\ tour'.posts = tour.posts
       /\ tour'.modals = tour.modals
       /\ tour'.timers = tour.timers]_vars

\* C14: markComplete and showCompletionModal each run at most once for a
\* tour, whatever Next clicks and ArrowRight/Enter keys it receives.
C14_CompletionAtMostOnce == tour.posts <= 1 /\ tour.modals <= 1

\* the button states and the step number the tooltip shows for currentStep
ButtonsMatchStep(t) ==
  /\ t.tooltip.prevDisabled <=> (t.currentStep = 0)
  /\ t.tooltip.nextText = "Finish" <=> (t.currentStep = Len(t.steps) - 1)
  /\ t.tooltip.nextText \in {"Finish", "Next"}
ProgressMatchesStep(t) ==
  t.options.showProgress => t.tooltip.stepCurrent = textOf(t.currentStep + 1)

\* C15: in a tour with at least one step, after every showStep that passed
\* its range check the Previous button is disabled iff currentStep = 0, the
\* Next button reads 'Finish' iff currentStep is the last index and 'Next'
\* otherwise, and with showProgress the step number shown is currentStep + 1.
C15_ButtonsFollowStep ==
  (Running /\ Len(tour.steps) >= 1) =>
     ButtonsMatchStep(tour) /\ ProgressMatchesStep(tour)

C15_Witness ==
  /\ Running /\ tour.options.showProgress /\ LastIndex >= 2
  /\ last.call = "previousStep" /\ tour.currentStep = LastIndex - 1
  /\ ~tour.tooltip.prevDisabled /\ tour.tooltip.nextText = "Next"
  /\ tour.tooltip.stepCurrent = textOf(LastIndex)

\* C16: a showStep whose target matches nothing (it logs the warning) still
\* makes the step current and writes its title, message, progress and button
\* states, and leaves the spotlight and tooltip positions unwritten (never
\* set when the step is the constructor's first).
C16_MissingTargetStillAdvances ==
  [][(Running' /\ tour'.console # "none") =>
       LET step == tour'.steps[tour'.currentStep + 1]
           first == last'.call = "constructor"
       IN  /\ tour'.console = step.target
           /\ last'.call \in {"constructor", "nextStep", "previousStep", "showStep"}
           /\ first => tour'.currentStep = 0
           /\ last'.call = "nextStep" => tour'.currentStep = tour.currentStep + 1
           /\ last'.call = "previousStep" => tour'.currentStep = tour.currentStep - 1
           /\ tour'.tooltip.title = step.title
           /\ tour'.tooltip.message = step.message
           /\ ButtonsMatchStep(tour') /\ ProgressMatchesStep(tour')
           /\ tour'.options.showProgress =>
                 tour'.tooltip.progressFill = << (tour'.currentStep + 1) * 100, Len(tour'.steps) >>
           /\ tour'.spotlight.rectOf = IF first THEN "unset" ELSE "kept"
           /\ tour'.tooltip.anchor = IF first THEN "unset" ELSE "kept"
           /\ tour'.scrolled = "none" /\ tour'.pulse = "none"
           /\ ~first => /\ tour'.spotlight.inDocument = tour.spotlight.inDocument
                         /\ tour'.timers = tour.timers
                         /\ tour'.posts = tour.posts]_vars

C16_Witness ==
  /\ Running /\ last.call = "nextStep" /\ tour.currentStep >= 1
  /\ tour.console = tour.steps[tour.currentStep + 1].target
  /\ tour.tooltip.title = tour.steps[tour.currentStep + 1].title
  /\ tour.spotlight.rectOf = "kept" /\ tour.tooltip.anchor = "kept"

====
